---- MODULE Spec2Model ----
(***************************************************************************)
(* Lazy, Content-Encoding driven decompression of an HTTP response body    *)
(* (decompress.go).  A response owns a header map, a body handle, the      *)
(* Uncompressed flag and ContentLength.  DecompressBody replaces the body  *)
(* handle by a lazy wrapper; each wrapper constructs its decoder inside    *)
(* its first Read.                                                         *)
(*                                                                         *)
(* The body handle is a chain: the transport's source stream at the bottom *)
(* and, above it, the readers DecompressBody has stacked on it (layers[1]  *)
(* is the innermost, layers[Len(layers)] is res.Body).  Handle 0 is the    *)
(* source stream itself.                                                   *)
(*                                                                         *)
(* The codecs are external libraries.  They are modelled by their stream   *)
(* framing only: the header bytes each one consumes and validates, and     *)
(* when it does so (in its constructor or in its first Read); the          *)
(* compressed payload after the header is carried literally.               *)
(***************************************************************************)
EXTENDS Integers, Sequences, FiniteSets, TLC

VARIABLES
    Header,         \* res.Header: partial function key -> value
    Uncompressed,   \* res.Uncompressed
    ContentLength,  \* res.ContentLength
    layers,         \* res.Body: readers stacked on the source stream
    src,            \* the transport's body stream
    out,            \* bytes the consumer has received from res.Body
    lastOp,         \* the call that returned last
    lastN,          \* byte count returned by the consumer's last Read
    lastErr,        \* error returned by the consumer's last Read or Close
    calls,          \* number of DecompressBody calls made
    closes,         \* number of Close calls made by the consumer
    panicked,       \* a nil dereference ended the program
    ce0             \* Content-Encoding seen by the first DecompressBody call

vars == <<Header, Uncompressed, ContentLength, layers, src, out, lastOp,
          lastN, lastErr, calls, closes, panicked, ce0>>

----------------------------------------------------------------------------
\* Bounds of the model.
MaxPayload == 2     \* longest uncompressed payload
MaxChunk == 2       \* largest len(p) of a Read
MaxCalls == 2       \* DecompressBody calls on one response
MaxCloses == 2      \* Close calls on one response

----------------------------------------------------------------------------
\* Program constants (decompress.go:14-20).
zlibMethodDeflate == 120
zlibLevelDefault == 156
zlibLevelLow == 1
zlibLevelMedium == 94
zlibLevelBest == 218

\* Error values.
NoErr == "nil"
EOF == "EOF"
ErrUnexpectedEOF == "unexpected EOF"
ErrIO == "read: connection reset"
ErrBodyReadAfterClose == "http: read on closed response body"
ErrGzipHeader == "gzip: invalid header"
ErrZlibHeader == "zlib: invalid header"
ErrFlateCorrupt == "flate: corrupt input"
ErrBrotli == "brotli: corrupt input"
ErrZstdMagic == "zstd: invalid input: magic number mismatch"

Min(a, b) == IF a < b THEN a ELSE b

IsPrefix(s, t) == Len(s) <= Len(t) /\ s = SubSeq(t, 1, Len(s))

\* The result of a Read on a handle: the chain afterwards, the bytes
\* returned and the error returned.
Res(st, data, err) == [st |-> st, data |-> data, err |-> err]

----------------------------------------------------------------------------
\* Header map.
KeyCE == "Content-Encoding"
KeyCL == "Content-Length"

\* Header.Get: the value stored under the key, "" when there is none.
Get(h, k) == IF k \in DOMAIN h THEN h[k] ELSE ""

\* Header.Del: the map without the key.
Del(h, k) == [x \in (DOMAIN h) \ {k} |-> h[x]]

----------------------------------------------------------------------------
\* Stream framing of the codecs.

gzipMagic == <<31, 139>>        \* ID1 ID2 of a gzip member
zstdMagic == <<40, 181>>        \* leading bytes of the zstd frame magic
brotliHeader == <<11>>          \* brotli stream header (window bits)

\* A DEFLATE block header byte: bit 0 is BFINAL, bits 1-2 are BTYPE;
\* BTYPE 3 is reserved and rejected by inflate.
BType(b) == (b \div 2) % 4
flateHeaderOK(h) == BType(h[1]) # 3

\* RFC 1950 header check made by zlib.NewReader: CM = 8, CINFO <= 7,
\* (CMF*256 + FLG) divisible by 31.
zlibHeaderOK(h) ==
    /\ h[1] % 16 = 8
    /\ h[1] \div 16 <= 7
    /\ (h[1] * 256 + h[2]) % 31 = 0

\* Bytes the constructor of a decoder reads and validates.
CtorHdrLen(kind) ==
    CASE kind = "gzip" -> 2
      [] kind = "zlib" -> 2
      [] OTHER -> 0

\* Bytes the constructed decoder reads and validates in its first Read.
DecHdrLen(kind) ==
    CASE kind = "zstd" -> 2
      [] OTHER -> 1

DecHdrOK(kind, h) ==
    CASE kind = "zstd" -> h = zstdMagic
      [] kind = "br" -> h = brotliHeader
      [] OTHER -> flateHeaderOK(h)

DecHdrErr(kind) ==
    CASE kind = "zstd" -> ErrZstdMagic
      [] kind = "br" -> ErrBrotli
      [] OTHER -> ErrFlateCorrupt

----------------------------------------------------------------------------
\* Readers.  st = [src, layers] is the chain; k is the handle read from
\* (0 = the source stream); n = len(p) >= 1; g is the largest number of
\* bytes the source hands out in one Read during this call.

\* A reader DecompressBody stacks on the body.  r: the decoder has been
\* constructed (r != nil); err: the wrapper's recorded error; pre: the
\* unread bytes of the bytes.Reader of a MultiReader; hdone, derr: the
\* decoder's own state (header consumed, its sticky error).  nctor, nreads,
\* ctorRead and given record the history of the reader: constructor
\* invocations, Read calls begun (saturating at 2), the Read call during
\* which the constructor ran, and the bytes handed out so far; base is the
\* number of bytes the body below had handed out before the peek whose bytes
\* are in pre.
NewLayer(kind, pre) ==
    [kind |-> kind, r |-> FALSE, err |-> NoErr, pre |-> pre,
     hdone |-> FALSE, derr |-> NoErr,
     nctor |-> 0, nreads |-> 0, ctorRead |-> 0, given |-> <<>>, base |-> 0]

\* The number of bytes res.Body has handed out so far.
HandedOutBy(rs) ==
    IF rs.layers = <<>> THEN rs.src.pos ELSE Len(rs.layers[Len(rs.layers)].given)

RECURSIVE Read(_, _, _, _)
RECURSIVE ReadAtLeast(_, _, _, _)

\* Read on the transport's body stream: up to n bytes, at most g at a time;
\* once the data is exhausted, the stream's terminal condition (io.EOF or
\* an I/O error); an error after Close.
srcRead(st, n, g) ==
    LET s == st.src
        m == Min(Min(n, g), Len(s.data) - s.pos)
    IN  IF s.closed THEN Res(st, <<>>, ErrBodyReadAfterClose)
        ELSE IF m > 0
        THEN Res([st EXCEPT !.src.pos = @ + m],
                 SubSeq(s.data, s.pos + 1, s.pos + m), NoErr)
        ELSE Res(st, <<>>, s.term)

\* io.ReadAtLeast(handle k, buf, m): Read until m bytes or an error.
\* (a is the result of one Read, b the result of the Reads after it.)
Joined(a, b) == Res(b.st, a.data \o b.data, b.err)

ReadMore(a, k, m, g) ==
    IF a.err # NoErr THEN a
    ELSE Joined(a, ReadAtLeast(a.st, k, m - Len(a.data), g))

ReadAtLeast(st, k, m, g) ==
    IF m = 0 THEN Res(st, <<>>, NoErr) ELSE ReadMore(Read(st, k, m, g), k, m, g)

\* io.ReadFull: io.EOF only if no byte was read, io.ErrUnexpectedEOF after
\* some but not all.
FullOrUnexpected(a) ==
    IF a.err = EOF /\ Len(a.data) > 0
    THEN Res(a.st, a.data, ErrUnexpectedEOF)
    ELSE a

ReadFull(st, k, m, g) == FullOrUnexpected(ReadAtLeast(st, k, m, g))

\* io.NopCloser(io.MultiReader(bytes.NewReader(header[:]), res.Body)).Read:
\* the peeked bytes first; once they are exhausted, the body below.
multiReaderRead(st, k, n, g) ==
    LET l == st.layers[k]
        m == Min(n, Len(l.pre))
    IN  IF m > 0
        THEN Res([st EXCEPT !.layers[k].pre = SubSeq(l.pre, m + 1, Len(l.pre))],
                 SubSeq(l.pre, 1, m), NoErr)
        ELSE Read(st, k - 1, n, g)

\* Read of a constructed decoder (gz.r.Read, br.r.Read, ...): its first Read
\* consumes and validates the header of the compressed data, later Reads
\* hand the payload on; an error of the decoder is sticky in the decoder.
decoderFail(st, k, e) == Res([st EXCEPT !.layers[k].derr = e], <<>>, e)

\* (a is the result of the Read on the body below the decoder.)
decoderResult(a, k) ==
    IF a.err # NoErr THEN decoderFail(a.st, k, a.err) ELSE a

decoderPayload(st, k, n, g) == decoderResult(Read(st, k - 1, n, g), k)

\* (h is the result of reading the header of the compressed data.)
decoderHeader(h, k, n, g) ==
    IF h.err # NoErr
    THEN decoderFail(h.st, k, IF h.err = EOF THEN ErrUnexpectedEOF ELSE h.err)
    ELSE IF ~DecHdrOK(h.st.layers[k].kind, h.data)
    THEN decoderFail(h.st, k, DecHdrErr(h.st.layers[k].kind))
    ELSE decoderPayload([h.st EXCEPT !.layers[k].hdone = TRUE], k, n, g)

decoderRead(st, k, n, g) ==
    LET l == st.layers[k]
    IN  IF l.derr # NoErr THEN Res(st, <<>>, l.derr)
        ELSE IF ~l.hdone
        THEN decoderHeader(ReadFull(st, k - 1, DecHdrLen(l.kind), g), k, n, g)
        ELSE decoderPayload(st, k, n, g)

\* A constructor invocation is counted, with the Read call it runs in.
Constructing(st, k) ==
    [st EXCEPT !.layers[k].nctor = Min(@ + 1, 2),
               !.layers[k].ctorRead = st.layers[k].nreads]

\* gzip.NewReader(gz.body): reads the member header; io.EOF or
\* io.ErrUnexpectedEOF on a short body, gzip.ErrHeader on a wrong magic.
gzipHeaderResult(h) ==
    IF h.err # NoErr THEN Res(h.st, <<>>, h.err)
    ELSE IF h.data # gzipMagic THEN Res(h.st, <<>>, ErrGzipHeader)
    ELSE Res(h.st, <<>>, NoErr)

gzipNewReader(st, k, g) ==
    gzipHeaderResult(ReadFull(Constructing(st, k), k - 1, CtorHdrLen("gzip"), g))

\* zlib.NewReader(z.body): reads the 2-byte zlib header; a short body is
\* io.ErrUnexpectedEOF, a failed header check zlib.ErrHeader.
zlibHeaderResult(h) ==
    IF h.err # NoErr
    THEN Res(h.st, <<>>, IF h.err = EOF THEN ErrUnexpectedEOF ELSE h.err)
    ELSE IF ~zlibHeaderOK(h.data) THEN Res(h.st, <<>>, ErrZlibHeader)
    ELSE Res(h.st, <<>>, NoErr)

zlibNewReader(st, k, g) ==
    zlibHeaderResult(ReadFull(Constructing(st, k), k - 1, CtorHdrLen("zlib"), g))

\* zstd.NewReader(z.body) with no options: reads nothing and returns a nil
\* error. brotli.NewReader and flate.NewReader return no error at all.
zstdNewReader(st, k, g) == Res(Constructing(st, k), <<>>, NoErr)
brotliNewReader(st, k, g) == Res(Constructing(st, k), <<>>, NoErr)
flateNewReader(st, k, g) == Res(Constructing(st, k), <<>>, NoErr)

\* func (gz *gzipReader) Read(p []byte) (n int, err error)
\* (gzipReaderInit: lines 68-74, c being what gzip.NewReader returned.)
\* (gzipReaderInit returning gz.r.Read(p) without looking at err.)
gzipReaderInitIgnoresErr(c, k, n, g) ==
    decoderRead([c.st EXCEPT !.layers[k].r = TRUE], k, n, g)

\* (gzipReaderInit keeping a decoder next to the recorded error.)
gzipReaderInitKeepsDecoder(c, k, n, g) ==
    IF c.err # NoErr
    THEN Res([c.st EXCEPT !.layers[k].err = c.err, !.layers[k].r = TRUE],
             <<>>, c.err)
    ELSE decoderRead([c.st EXCEPT !.layers[k].r = TRUE], k, n, g)

gzipReaderInit(c, k, n, g) ==
    IF c.err # NoErr
    THEN Res([c.st EXCEPT !.layers[k].err = c.err], <<>>, c.err)
    ELSE decoderRead([c.st EXCEPT !.layers[k].r = TRUE], k, n, g)

\* (gzipReaderRead without the test gz.r == nil.)
gzipReaderReadAlwaysNew(st, k, n, g) ==
    IF st.layers[k].err # NoErr THEN Res(st, <<>>, st.layers[k].err)
    ELSE gzipReaderInit(gzipNewReader(st, k, g), k, n, g)

\* (gzipReaderRead without the test gz.err != nil.)
gzipReaderReadRetries(st, k, n, g) ==
    IF ~st.layers[k].r THEN gzipReaderInit(gzipNewReader(st, k, g), k, n, g)
    ELSE decoderRead(st, k, n, g)

\* (gzipReaderRead storing an error of gz.r.Read in gz.err.)
gzipReaderRecord(a, k) ==
    IF a.err # NoErr
    THEN Res([a.st EXCEPT !.layers[k].err = a.err], a.data, a.err)
    ELSE a

gzipReaderReadRecordsErr(st, k, n, g) ==
    IF st.layers[k].err # NoErr THEN Res(st, <<>>, st.layers[k].err)
    ELSE IF ~st.layers[k].r THEN gzipReaderInit(gzipNewReader(st, k, g), k, n, g)
    ELSE gzipReaderRecord(decoderRead(st, k, n, g), k)

gzipReaderRead(st, k, n, g) ==
    IF st.layers[k].err # NoErr THEN Res(st, <<>>, st.layers[k].err)
    ELSE IF ~st.layers[k].r THEN gzipReaderInit(gzipNewReader(st, k, g), k, n, g)
    ELSE decoderRead(st, k, n, g)

\* func (br *brReader) Read(p []byte) (n int, err error)
brReaderRead(st, k, n, g) ==
    IF st.layers[k].err # NoErr THEN Res(st, <<>>, st.layers[k].err)
    ELSE IF ~st.layers[k].r
    THEN decoderRead([brotliNewReader(st, k, g).st EXCEPT !.layers[k].r = TRUE],
                     k, n, g)
    ELSE decoderRead(st, k, n, g)

\* func (z *zlibDeflateReader) Read(p []byte) (n int, err error)
\* (zlibDeflateReaderInit: lines 116-122, c being what zlib.NewReader returned.)
zlibDeflateReaderInit(c, k, n, g) ==
    IF c.err # NoErr
    THEN Res([c.st EXCEPT !.layers[k].err = c.err], <<>>, c.err)
    ELSE decoderRead([c.st EXCEPT !.layers[k].r = TRUE], k, n, g)

zlibDeflateReaderRead(st, k, n, g) ==
    IF st.layers[k].err # NoErr THEN Res(st, <<>>, st.layers[k].err)
    ELSE IF ~st.layers[k].r
    THEN zlibDeflateReaderInit(zlibNewReader(st, k, g), k, n, g)
    ELSE decoderRead(st, k, n, g)

\* func (dr *deflateReader) Read(p []byte) (n int, err error)
deflateReaderRead(st, k, n, g) ==
    IF st.layers[k].err # NoErr THEN Res(st, <<>>, st.layers[k].err)
    ELSE IF ~st.layers[k].r
    THEN decoderRead([flateNewReader(st, k, g).st EXCEPT !.layers[k].r = TRUE],
                     k, n, g)
    ELSE decoderRead(st, k, n, g)

\* func (z *zstdReader) Read(p []byte) (n int, err error)
\* (zstdReaderInit: lines 164-170, c being what zstd.NewReader returned.)
zstdReaderInit(c, k, n, g) ==
    IF c.err # NoErr
    THEN Res([c.st EXCEPT !.layers[k].err = c.err], <<>>, c.err)
    ELSE decoderRead([c.st EXCEPT !.layers[k].r = TRUE], k, n, g)

zstdReaderRead(st, k, n, g) ==
    IF st.layers[k].err # NoErr THEN Res(st, <<>>, st.layers[k].err)
    ELSE IF ~st.layers[k].r THEN zstdReaderInit(zstdNewReader(st, k, g), k, n, g)
    ELSE decoderRead(st, k, n, g)

\* What a reader hands out is recorded in its history.
HandedOut(a, k) ==
    Res([a.st EXCEPT !.layers[k].given = @ \o a.data], a.data, a.err)

\* A Read call begun on reader k is counted.
Begun(st, k) == [st EXCEPT !.layers[k].nreads = Min(@ + 1, 2)]

\* The Read method of reader k.
Method(st, k, n, g) ==
    CASE st.layers[k].kind = "multi" -> multiReaderRead(st, k, n, g)
      [] st.layers[k].kind = "gzip" -> gzipReaderRead(st, k, n, g)
      [] st.layers[k].kind = "br" -> brReaderRead(st, k, n, g)
      [] st.layers[k].kind = "zlib" -> zlibDeflateReaderRead(st, k, n, g)
      [] st.layers[k].kind = "flate" -> deflateReaderRead(st, k, n, g)
      [] st.layers[k].kind = "zstd" -> zstdReaderRead(st, k, n, g)

\* Read on handle k: dynamic dispatch on the reader's type.
Read(st, k, n, g) ==
    IF k = 0 THEN srcRead(st, n, g)
    ELSE HandedOut(Method(Begun(st, k), k, n, g), k)

----------------------------------------------------------------------------
\* Close.  The result: the chain afterwards, the error returned, and whether
\* the call dereferenced a nil decoder.  e is what the transport's body stream
\* returns from its Close, should the call reach it.
CloseRes(st, err, panic) == [st |-> st, err |-> err, panic |-> panic]

RECURSIVE Close(_, _, _)

\* Close of the transport's body stream; the stream records that it has been
\* closed, how often Close was called and what the last call returned.
srcClose(st, e) ==
    CloseRes([st EXCEPT !.src.closed = TRUE, !.src.nclose = @ + 1,
                        !.src.closeErr = e], e, FALSE)

\* Close of a constructed zlib or flate decompressor: reports the
\* decompressor's error, if any; it does not close the reader it reads from.
decoderClose(st, k) ==
    LET e == st.layers[k].derr
    IN  CloseRes(st, IF e = EOF THEN NoErr ELSE e, FALSE)

\* func (gz *gzipReader) Close() error { return gz.body.Close() }
\* (gzipReaderClose closing the decompressor instead: return gz.r.Close().)
gzipReaderCloseDecoder(st, k, e) == decoderClose(st, k)

gzipReaderClose(st, k, e) == Close(st, k - 1, e)

\* func (br *brReader) Close() error { return br.body.Close() }
brReaderClose(st, k, e) == Close(st, k - 1, e)

\* func (z *zlibDeflateReader) Close() error { return z.r.Close() }
zlibDeflateReaderClose(st, k) ==
    IF ~st.layers[k].r THEN CloseRes(st, NoErr, TRUE) ELSE decoderClose(st, k)

\* func (dr *deflateReader) Close() error { return dr.r.Close() }
deflateReaderClose(st, k) ==
    IF ~st.layers[k].r THEN CloseRes(st, NoErr, TRUE) ELSE decoderClose(st, k)

\* func (z *zstdReader) Close() error { return z.body.Close() }
zstdReaderClose(st, k, e) == Close(st, k - 1, e)

\* io.NopCloser(...).Close: returns nil and closes nothing.
nopCloserClose(st, k) == CloseRes(st, NoErr, FALSE)

\* Close on handle k: dynamic dispatch on the reader's type.
Close(st, k, e) ==
    IF k = 0 THEN srcClose(st, e)
    ELSE LET kind == st.layers[k].kind
         IN  CASE kind = "multi" -> nopCloserClose(st, k)
               [] kind = "gzip" -> gzipReaderClose(st, k, e)
               [] kind = "br" -> brReaderClose(st, k, e)
               [] kind = "zlib" -> zlibDeflateReaderClose(st, k)
               [] kind = "flate" -> deflateReaderClose(st, k)
               [] kind = "zstd" -> zstdReaderClose(st, k, e)

----------------------------------------------------------------------------
\* DecompressBody.  rs = [Header, Uncompressed, ContentLength, layers, src]
\* is the response; g is the grain of the source during the call.

\* res.Body = &xReader{body: res.Body}
Wrap(rs, kind) == [rs EXCEPT !.layers = Append(@, NewLayer(kind, <<>>))]

\* (ResetBody without the peeked bytes: res.Body = io.NopCloser(res.Body).)
ResetBodyDropsHeader(rs, header) ==
    [rs EXCEPT !.layers =
        Append(@, [NewLayer("multi", <<>>) EXCEPT
                      !.base = HandedOutBy(rs) - Len(header)])]

\* res.Body = io.NopCloser(io.MultiReader(bytes.NewReader(header[:]), res.Body))
ResetBody(rs, header) ==
    [rs EXCEPT !.layers =
        Append(@, [NewLayer("multi", header) EXCEPT
                      !.base = HandedOutBy(rs) - Len(header)])]

\* (Normalize without res.Header.Del("Content-Length").)
NormalizeKeepsLength(rs) ==
    [rs EXCEPT !.Header = Del(@, KeyCE),
               !.Uncompressed = TRUE,
               !.ContentLength = -1]

\* The four statements after the switch.
Normalize(rs) ==
    [rs EXCEPT !.Header = Del(Del(@, KeyCE), KeyCL),
               !.Uncompressed = TRUE,
               !.ContentLength = -1]

\* (The zlib header test without zlibLevelLow.)
IsZlibHeaderWithoutLow(header) ==
    /\ header[1] = zlibMethodDeflate
    /\ \/ header[2] = zlibLevelDefault
       \/ header[2] = zlibLevelMedium
       \/ header[2] = zlibLevelBest

\* The zlib header test of the "deflate" case.
IsZlibHeader(header) ==
    /\ header[1] = zlibMethodDeflate
    /\ \/ header[2] = zlibLevelDefault
       \/ header[2] = zlibLevelLow
       \/ header[2] = zlibLevelMedium
       \/ header[2] = zlibLevelBest

\* case "deflate": peek 2 bytes, put them back, pick the reader, return.
\* (DeflateReader without the early return on a failed peek.)
DeflateReaderResetsOnError(rs, h) ==
    LET peeked == [rs EXCEPT !.src = h.st.src, !.layers = h.st.layers]
        reset == ResetBody(peeked, h.data)
    IN  IF h.err # NoErr THEN reset
        ELSE IF IsZlibHeader(h.data) THEN Wrap(reset, "zlib")
        ELSE IF h.data[1] = zlibMethodDeflate THEN Wrap(reset, "flate")
        ELSE reset

\* (h is the result of io.ReadFull(res.Body, header[:]).)
DeflateReader(rs, h) ==
    LET peeked == [rs EXCEPT !.src = h.st.src, !.layers = h.st.layers]
        reset == ResetBody(peeked, h.data)
    IN  IF h.err # NoErr THEN peeked
        ELSE IF IsZlibHeader(h.data) THEN Wrap(reset, "zlib")
        ELSE IF h.data[1] = zlibMethodDeflate THEN Wrap(reset, "flate")
        ELSE reset

\* (The "deflate" case falling through to the statements after the switch.)
DecompressDeflateNormalizes(rs, g) ==
    Normalize(DeflateReader(rs, ReadFull([src |-> rs.src, layers |-> rs.layers],
                                         Len(rs.layers), 2, g)))

DecompressDeflate(rs, g) ==
    DeflateReader(rs, ReadFull([src |-> rs.src, layers |-> rs.layers],
                               Len(rs.layers), 2, g))

\* (DecompressBody calling gzip.NewReader while it wraps.)
EagerGzip(rs, c) ==
    [rs EXCEPT !.src = c.st.src,
               !.layers = [c.st.layers EXCEPT ![Len(rs.layers)].r = (c.err = NoErr),
                                              ![Len(rs.layers)].err = c.err]]

DecompressBodyEager(rs, g) ==
    LET ce == Get(rs.Header, KeyCE)
        w == Wrap(rs, "gzip")
    IN  CASE ce = "gzip" ->
               Normalize(EagerGzip(w, gzipNewReader([src |-> w.src, layers |-> w.layers],
                                                    Len(w.layers), g)))
          [] ce = "br" -> Normalize(Wrap(rs, "br"))
          [] ce = "deflate" -> DecompressDeflate(rs, g)
          [] ce = "zstd" -> Normalize(Wrap(rs, "zstd"))
          [] OTHER -> rs

\* (DecompressBody comparing the token without regard to case.)
DecompressBodyFoldCase(rs, g) ==
    LET ce == Get(rs.Header, KeyCE)
    IN  CASE ce \in {"gzip", "GZIP"} -> Normalize(Wrap(rs, "gzip"))
          [] ce = "br" -> Normalize(Wrap(rs, "br"))
          [] ce = "deflate" -> DecompressDeflate(rs, g)
          [] ce = "zstd" -> Normalize(Wrap(rs, "zstd"))
          [] OTHER -> rs

\* func DecompressBody(res *Response)
DecompressBody(rs, g) ==
    LET ce == Get(rs.Header, KeyCE)
    IN  CASE ce = "gzip" -> Normalize(Wrap(rs, "gzip"))
          [] ce = "br" -> Normalize(Wrap(rs, "br"))
          [] ce = "deflate" -> DecompressDeflate(rs, g)
          [] ce = "zstd" -> Normalize(Wrap(rs, "zstd"))
          [] OTHER -> rs

----------------------------------------------------------------------------
\* Inputs: the responses a transport hands to DecompressBody.

Schemes == {"gzip", "br", "zlib", "flate", "zstd"}

\* The Content-Encoding token of a scheme.
Token(s) == IF s \in {"zlib", "flate"} THEN "deflate" ELSE s

PayloadBytes == {0, 65}

RECURSIVE SeqsUpTo(_, _)
SeqsUpTo(S, n) ==
    IF n = 0 THEN {<<>>}
    ELSE LET shorter == SeqsUpTo(S, n - 1)
         IN  shorter \cup {Append(q, x) : q \in shorter, x \in S}

Payloads == SeqsUpTo(PayloadBytes, MaxPayload)

\* zlib headers servers send: 32K window at default and at lowest level,
\* 8K window.  All three pass the RFC 1950 header check.
ZlibHeaders == {<<120, 156>>, <<120, 1>>, <<88, 133>>}

\* First bytes of raw DEFLATE data: a stored block whose header byte is 0x78,
\* a final fixed-Huffman block (0x4B).
FlateHeaders == {<<120>>, <<75>>}

\* The valid encodings of payload B in scheme s.
Encodings(s, B) ==
    CASE s = "gzip" -> {gzipMagic \o <<1>> \o B}
      [] s = "br" -> {brotliHeader \o B}
      [] s = "zstd" -> {zstdMagic \o B}
      [] s = "zlib" -> {zh \o <<1>> \o B : zh \in ZlibHeaders}
      [] s = "flate" -> {fh \o B : fh \in FlateHeaders}

\* Bodies that are no valid encoding: empty, truncated, wrong magic, a
\* reserved block type, the remaining byte pairs of the deflate test.
Malformed ==
    {<<>>, <<31>>, <<31, 0, 65>>, <<31, 139, 7, 65>>,
     <<120, 94, 1, 65>>, <<120, 218, 1>>, <<120, 0, 65>>}

Bodies == Malformed \cup UNION {Encodings(s, B) : s \in Schemes, B \in Payloads}

NoEntry == "<no entry>"
CEValues == {NoEntry, "", "gzip", "br", "deflate", "zstd", "GZIP", "gzip, br"}

\* Content-Length entry, Uncompressed and ContentLength before the call.
Metas == {<<"7", FALSE, 7>>, <<NoEntry, TRUE, 0>>}

\* The source hands out its bytes one at a time or two at a time.
Grains == {1, 2}

\* What the source returns from Close: nil, or an error.
CloseErrs == {NoErr, ErrIO}

\* The header map with the given Content-Encoding and Content-Length entries
\* (or without them) and one unrelated entry.
HeaderOf(ce, cl) ==
    [k \in {"Server"} \cup (IF ce = NoEntry THEN {} ELSE {KeyCE})
                      \cup (IF cl = NoEntry THEN {} ELSE {KeyCL}) |->
        CASE k = KeyCE -> ce
          [] k = KeyCL -> cl
          [] OTHER -> "nginx"]

Init ==
    /\ \E ce \in CEValues, m \in Metas :
          /\ Header = HeaderOf(ce, m[1])
          /\ Uncompressed = m[2]
          /\ ContentLength = m[3]
    /\ layers = <<>>
    /\ \E b \in Bodies, t \in {EOF, ErrIO} :
          src = [data |-> b, pos |-> 0, term |-> t, closed |-> FALSE,
                 nclose |-> 0, closeErr |-> NoErr]
    /\ out = <<>>
    /\ lastOp = "new"
    /\ lastN = 0
    /\ lastErr = NoErr
    /\ calls = 0
    /\ closes = 0
    /\ panicked = FALSE
    /\ ce0 = ""

\* The response as DecompressBody sees it.
Response ==
    [Header |-> Header, Uncompressed |-> Uncompressed,
     ContentLength |-> ContentLength, layers |-> layers, src |-> src]

Chain == [src |-> src, layers |-> layers]

\* The response after DecompressBody has returned rs.
Returned(rs) ==
    /\ Header' = rs.Header
    /\ Uncompressed' = rs.Uncompressed
    /\ ContentLength' = rs.ContentLength
    /\ layers' = rs.layers
    /\ src' = rs.src

\* The consumer's view after its Read has returned a.
ReadReturned(a) ==
    /\ layers' = a.st.layers
    /\ src' = a.st.src
    /\ out' = out \o a.data
    /\ lastN' = Len(a.data)
    /\ lastErr' = a.err

\* The consumer's view after its Close has returned c.
CloseReturned(c) ==
    /\ layers' = c.st.layers
    /\ src' = c.st.src
    /\ lastErr' = c.err
    /\ panicked' = c.panic

\* The transport (or a later caller) calls DecompressBody(res).
CallDecompressBody ==
    /\ ~panicked
    /\ calls < MaxCalls
    /\ \E g \in Grains : Returned(DecompressBody(Response, g))
    /\ calls' = calls + 1
    /\ ce0' = IF calls = 0 THEN Get(Header, KeyCE) ELSE ce0
    /\ lastOp' = "DecompressBody"
    /\ UNCHANGED <<out, lastN, lastErr, closes, panicked>>

\* The consumer calls res.Body.Read(p) with len(p) = n.
CallRead ==
    /\ ~panicked
    /\ calls >= 1
    /\ \E n \in 1..MaxChunk, g \in Grains :
          ReadReturned(Read(Chain, Len(layers), n, g))
    /\ lastOp' = "Read"
    /\ UNCHANGED <<Header, Uncompressed, ContentLength, calls, closes,
                   panicked, ce0>>

\* The consumer calls res.Body.Close().
CallClose ==
    /\ ~panicked
    /\ calls >= 1
    /\ closes < MaxCloses
    /\ \E e \in CloseErrs : CloseReturned(Close(Chain, Len(layers), e))
    /\ closes' = closes + 1
    /\ lastOp' = "Close"
    /\ UNCHANGED <<Header, Uncompressed, ContentLength, out, lastN, calls, ce0>>

Next == CallDecompressBody \/ CallRead \/ CallClose

Spec == Init /\ [][Next]_vars

\* The deflate disambiguation alone, over every pair of leading bytes.
Bytes == 0..255

InitPeek ==
    /\ Header = HeaderOf("deflate", "7")
    /\ Uncompressed = FALSE
    /\ ContentLength = 7
    /\ layers = <<>>
    /\ \E b0 \in Bytes, b1 \in Bytes, t \in {EOF, ErrIO} :
          src = [data |-> <<b0, b1>>, pos |-> 0, term |-> t, closed |-> FALSE,
                 nclose |-> 0, closeErr |-> NoErr]
    /\ out = <<>>
    /\ lastOp = "new"
    /\ lastN = 0
    /\ lastErr = NoErr
    /\ calls = 0
    /\ closes = 0
    /\ panicked = FALSE
    /\ ce0 = ""

NextPeek == CallDecompressBody

SpecPeek == InitPeek /\ [][NextPeek]_vars

----------------------------------------------------------------------------
\* Properties.

\* The step is a DecompressBody call made with Content-Encoding ce.
DecompressStep(ce) == calls' = calls + 1 /\ Get(Header, KeyCE) = ce

Recognized == {"gzip", "br", "deflate", "zstd"}

\* C1: a DecompressBody call on a response whose Content-Encoding is exactly
\* "gzip", "br" or "zstd" leaves the response without a Content-Encoding
\* entry and without a Content-Length entry, with Uncompressed true and
\* ContentLength -1, whatever they were before and whatever the body holds.
C1_NormalizedAfterWrap ==
    [][\A ce \in {"gzip", "br", "zstd"} :
          DecompressStep(ce) =>
             /\ KeyCE \notin DOMAIN Header'
             /\ KeyCL \notin DOMAIN Header'
             /\ Uncompressed'
             /\ ContentLength' = -1]_vars

\* A zstd response that carried Content-Length 7 has just been wrapped.
C1_Witness ==
    /\ lastOp = "DecompressBody" /\ calls = 1 /\ ce0 = "zstd"
    /\ Len(layers) = 1 /\ layers[1].kind = "zstd"
    /\ DOMAIN Header = {"Server"} /\ Uncompressed /\ ContentLength = -1
    /\ Len(src.data) > 0

\* C2: a DecompressBody call on a response whose Content-Encoding is absent,
\* empty or any string other than "gzip", "br", "deflate", "zstd" changes
\* neither the body handle, nor any header entry, nor Uncompressed, nor
\* ContentLength, and reads nothing from the body.
C2_UnrecognizedIsNoOp ==
    [][(calls' = calls + 1 /\ Get(Header, KeyCE) \notin Recognized) =>
          /\ layers' = layers
          /\ Header' = Header
          /\ Uncompressed' = Uncompressed
          /\ ContentLength' = ContentLength
          /\ src' = src]_vars

\* A response declaring "GZIP" over a gzip body has gone through
\* DecompressBody and is untouched.
C2_Witness ==
    /\ lastOp = "DecompressBody" /\ calls = 1 /\ ce0 = "GZIP"
    /\ layers = <<>> /\ src.pos = 0
    /\ Header = HeaderOf("GZIP", "7") /\ ~Uncompressed /\ ContentLength = 7
    /\ src.data = gzipMagic \o <<1, 65>>

\* The types of the readers stacked on the source, innermost first.
Kinds == [k \in 1..Len(layers) |-> layers[k].kind]

\* C3: for each of the five schemes and every payload B, if the body is a
\* valid encoding of B in the scheme and Content-Encoding carries the
\* scheme's token, then after DecompressBody reading res.Body to the end
\* yields exactly B: every Read succeeds or reports end-of-stream, what has
\* been read is a prefix of B, and at end-of-stream it is B.
C3_RoundTrip ==
    \A s \in Schemes, B \in Payloads :
        (/\ calls = 1 /\ ce0 = Token(s)
         /\ src.data \in Encodings(s, B) /\ src.term = EOF /\ closes = 0)
        => /\ IsPrefix(out, B)
           /\ lastErr \in {NoErr, EOF}
           /\ (lastOp = "Read" /\ lastErr = EOF) => out = B

\* C4: the decoder constructor of a wrapper is invoked at most once, inside
\* the first Read call on the wrapper (so a wrapper that has been read has
\* its one invocation behind it, and a wrapper not yet read has none and no
\* decoder, as when DecompressBody has just attached it), and no Close call
\* invokes it.
C4_ConstructedOnceInFirstRead ==
    [][/\ \A k \in 1..Len(layers') :
             layers'[k].kind # "multi" =>
                /\ layers'[k].nctor <= 1
                /\ layers'[k].nctor = 1 => layers'[k].ctorRead = 1
                /\ layers'[k].nreads >= 1 => layers'[k].nctor = 1
                /\ layers'[k].nreads = 0 =>
                      layers'[k].nctor = 0 /\ ~layers'[k].r
       /\ lastOp' = "Close" =>
             /\ Len(layers') = Len(layers)
             /\ \A k \in 1..Len(layers) : layers'[k].nctor = layers[k].nctor
       /\ calls' = calls + 1 =>
             \A k \in (Len(layers) + 1)..Len(layers') :
                 layers'[k].nctor = 0 /\ ~layers'[k].r]_vars

\* A gzip wrapper has been read twice and then closed: one constructor call.
C4_Witness ==
    /\ lastOp = "Close" /\ Kinds = <<"gzip">>
    /\ layers[1].nreads = 2 /\ layers[1].nctor = 1 /\ layers[1].r
    /\ Len(out) = 2

\* C5 as stated: for every recognized encoding (gzip, br, deflate, zstd)
\* DecompressBody returns without having read any byte from the body stream.
C5_NoByteReadWhileWrapping ==
    [][(calls' = calls + 1 /\ Get(Header, KeyCE) \in Recognized) =>
          src'.pos = src.pos]_vars

\* C5 amended: for gzip, br and zstd DecompressBody only attaches a fresh
\* wrapper and leaves the body stream as it was; for deflate on a body that
\* is still the original open stream it reads the first 2 bytes of what is
\* left (all of it if less is left).
C5_OnlyDeflatePeeks ==
    [][/\ \A ce \in {"gzip", "br", "zstd"} :
             DecompressStep(ce) =>
                /\ src' = src
                /\ layers' = Append(layers, NewLayer(ce, <<>>))
       /\ (DecompressStep("deflate") /\ layers = <<>> /\ ~src.closed) =>
             src'.pos = Min(src.pos + 2, Len(src.data))]_vars

\* A gzip body has been wrapped and is wholly unread.
C5_Witness ==
    /\ lastOp = "DecompressBody" /\ calls = 1 /\ ce0 = "gzip"
    /\ Kinds = <<"gzip">> /\ src.pos = 0 /\ Len(src.data) >= 3
    /\ ~layers[1].r

\* C6: once a wrapper has recorded a construction error, the error stays
\* recorded, the constructor is not invoked again and no decoder appears;
\* every later Read of the wrapper by the consumer returns 0 bytes and that
\* same error and reads nothing from the source.
C6_StickyConstructionError ==
    [][\A k \in 1..Len(layers) :
          layers[k].err # NoErr =>
             /\ Len(layers') >= k
             /\ layers'[k].err = layers[k].err
             /\ layers'[k].nctor = layers[k].nctor
             /\ ~layers'[k].r
             /\ (k = Len(layers) /\ lastOp' = "Read") =>
                   /\ lastN' = 0
                   /\ lastErr' = layers[k].err
                   /\ out' = out
                   /\ src' = src]_vars

\* A gzip wrapper over a body with a wrong magic has been read twice.
C6_Witness ==
    /\ lastOp = "Read" /\ Kinds = <<"gzip">> /\ calls = 1
    /\ layers[1].err = ErrGzipHeader /\ layers[1].nreads = 2
    /\ layers[1].nctor = 1 /\ lastErr = ErrGzipHeader /\ lastN = 0
    /\ src.pos = 2 /\ Len(src.data) > 2

\* The error gzip.NewReader reports on the body as the transport delivered
\* it (NoErr when the member header is intact).
GzipHeaderError ==
    IF Len(src.data) >= 2
    THEN IF SubSeq(src.data, 1, 2) = gzipMagic THEN NoErr ELSE ErrGzipHeader
    ELSE IF Len(src.data) = 0 \/ src.term # EOF THEN src.term
    ELSE ErrUnexpectedEOF

\* C7: for a gzip response whose body makes gzip.NewReader fail,
\* DecompressBody still attaches the gzip wrapper with the full header
\* normalization and nothing has failed or been read before the first Read;
\* from the first Read on, the consumer has received 0 bytes and the Read
\* returns the construction error.
C7_CorruptGzipFailsOnFirstRead ==
    (calls = 1 /\ ce0 = "gzip" /\ GzipHeaderError # NoErr) =>
        /\ ~panicked
        /\ Kinds = <<"gzip">>
        /\ KeyCE \notin DOMAIN Header /\ KeyCL \notin DOMAIN Header
        /\ Uncompressed /\ ContentLength = -1
        /\ layers[1].nreads = 0 =>
              /\ layers[1].err = NoErr /\ src.pos = 0
              /\ closes = 0 => lastErr = NoErr
        /\ layers[1].nreads >= 1 =>
              /\ out = <<>>
              /\ layers[1].err # NoErr
              /\ closes = 0 => layers[1].err = GzipHeaderError
              /\ lastOp = "Read" => lastN = 0 /\ lastErr = layers[1].err

\* The first Read of a gzip wrapper over a truncated header has returned.
C7_Witness ==
    /\ lastOp = "Read" /\ calls = 1 /\ ce0 = "gzip" /\ closes = 0
    /\ src.data = <<31>> /\ src.term = EOF
    /\ layers[1].nreads = 1 /\ lastN = 0 /\ lastErr = ErrUnexpectedEOF

\* C8: for a deflate response whose body supplies 2 bytes (b0, b1),
\* DecompressBody selects: the zlib-wrapped decoder when b0 = 0x78 and b1 is
\* 0x9C, 0x01, 0x5E or 0xDA; the raw-deflate decoder when b0 = 0x78 and b1
\* is any other byte; no decoder, only the reconstructed stream, when
\* b0 # 0x78.
C8_DeflateSelection ==
    (calls = 1 /\ ce0 = "deflate" /\ Len(src.data) >= 2) =>
        Kinds = IF src.data[1] = 120 /\ src.data[2] \in {156, 1, 94, 218}
                THEN <<"multi", "zlib">>
                ELSE IF src.data[1] = 120
                THEN <<"multi", "flate">>
                ELSE <<"multi">>

\* The pair (0x78, 0x01) has selected the zlib-wrapped decoder.
C8_Witness ==
    /\ calls = 1 /\ ce0 = "deflate" /\ src.data = <<120, 1>>
    /\ Kinds = <<"multi", "zlib">>

\* What has been read so far from handle k.
Given(k) == IF k = 0 THEN SubSeq(src.data, 1, src.pos) ELSE layers[k].given

\* C9: the stream DecompressBody reconstructs after a successful peek hands
\* out exactly the bytes of the body below it, the 2 peeked bytes first:
\* what it has handed out, followed by the peeked bytes it still holds, is
\* what has been read from the body below since the peek began (for the
\* first call: the body's bytes from its first byte on); with no decoder
\* attached this is what the consumer has received.
C9_ReconstructedStream ==
    /\ \A k \in 1..Len(layers) :
          layers[k].kind = "multi" =>
             layers[k].given \o layers[k].pre =
                SubSeq(Given(k - 1), layers[k].base + 1, Len(Given(k - 1)))
    /\ (calls = 1 /\ ce0 = "deflate" /\ Len(layers) >= 1) =>
          /\ layers[1].kind = "multi" /\ layers[1].base = 0
          /\ layers[1].given \o layers[1].pre = SubSeq(src.data, 1, src.pos)
    /\ (calls = 1 /\ Kinds = <<"multi">>) => out = layers[1].given

\* The consumer has read a whole 4-byte body through the reconstructed
\* stream.
C9_Witness ==
    /\ calls = 1 /\ Kinds = <<"multi">> /\ lastOp = "Read"
    /\ Len(src.data) = 4 /\ out = src.data /\ lastErr = EOF

\* C10: a DecompressBody call on a deflate response whose body (still the
\* original stream) has fewer than 2 bytes left, or fails before 2 bytes,
\* leaves res.Body the original stream and Header, Uncompressed and
\* ContentLength unchanged; a Read the caller then makes on the open body
\* returns 0 bytes and the stream's own end-of-stream or error.
C10_PeekFailureLeavesBody ==
    [][/\ (/\ DecompressStep("deflate") /\ layers = <<>>
           /\ Len(src.data) - src.pos < 2) =>
             /\ layers' = <<>>
             /\ Header' = Header
             /\ Uncompressed' = Uncompressed
             /\ ContentLength' = ContentLength
             /\ ~panicked'
       /\ (/\ lastOp' = "Read" /\ ce0 = "deflate" /\ layers = <<>>
           /\ Len(src.data) < 2 /\ ~src.closed) =>
             /\ lastN' = 0
             /\ lastErr' = src.term
             /\ out' = out]_vars

\* The caller has read from a 1-byte deflate body after DecompressBody.
C10_Witness ==
    /\ lastOp = "Read" /\ calls = 1 /\ ce0 = "deflate" /\ layers = <<>>
    /\ src.data = <<120>> /\ src.pos = 1 /\ src.term = ErrIO
    /\ lastErr = ErrIO /\ lastN = 0
    /\ Header = HeaderOf("deflate", "7") /\ ~Uncompressed /\ ContentLength = 7

\* C11: a second DecompressBody call on a response to which the first call
\* has attached a wrapper (under gzip, br, deflate or zstd) is a no-op: body handle, header
\* entries, Uncompressed and ContentLength stay as the first call left them
\* and no byte is read from the body.
C11_SecondCallIsNoOp ==
    [][(/\ calls = 1 /\ calls' = calls + 1
        /\ ce0 \in Recognized /\ layers # <<>>
        /\ layers[Len(layers)].kind # "multi") =>
          /\ layers' = layers
          /\ Header' = Header
          /\ Uncompressed' = Uncompressed
          /\ ContentLength' = ContentLength
          /\ src' = src]_vars

\* The reader res.Body currently is ("source" for the transport's stream).
Top == IF layers = <<>> THEN "source" ELSE layers[Len(layers)].kind

Wrappers == {"gzip", "br", "zlib", "flate", "zstd"}

\* C12: for every wrapper variant one DecompressBody call has attached and
\* whatever Reads came before, once the consumer's Close on the wrapped body
\* has returned, the original source stream of the response has been closed.
C12_CloseClosesSource ==
    (lastOp = "Close" /\ ~panicked /\ calls = 1 /\ Top \in Wrappers) =>
        src.closed

\* The step is a Close call of the consumer on res.Body.
CloseStep == closes' = closes + 1

\* C13: a Close on a gzip, br or zstd wrapper, whatever the wrapper's state
\* (not yet read, decoder constructed, construction error recorded), calls
\* Close on the original source stream exactly once and returns what that
\* call returned; a Close on a zlib or raw-deflate wrapper whose decoder has
\* been constructed calls the decoder's Close instead and returns its result
\* (the decoder's error, nil at end of stream), leaving the source as it is.
C13_CloseDelegation ==
    [][CloseStep =>
          /\ Top \in {"gzip", "br", "zstd"} =>
                /\ src'.nclose = src.nclose + 1
                /\ src'.closed
                /\ lastErr' = src'.closeErr
                /\ layers' = layers
                /\ ~panicked'
          /\ (Top \in {"zlib", "flate"} /\ layers[Len(layers)].r) =>
                /\ src' = src
                /\ layers' = layers
                /\ lastErr' = IF layers[Len(layers)].derr = EOF THEN NoErr
                              ELSE layers[Len(layers)].derr
                /\ ~panicked']_vars

\* A gzip wrapper holding a construction error has been closed twice: the
\* source has seen two Close calls, the second of which returned an error
\* that the wrapper's Close returned in turn.
C13_Witness ==
    /\ lastOp = "Close" /\ Kinds = <<"gzip">> /\ closes = 2
    /\ layers[1].err = ErrGzipHeader /\ ~layers[1].r
    /\ src.nclose = 2 /\ src.closed
    /\ src.closeErr = ErrIO /\ lastErr = ErrIO

\* C14: a DecompressBody call on a "deflate" response, whichever way the
\* disambiguation goes (zlib-wrapped, raw deflate, passthrough), skips the
\* normalization: afterwards Content-Encoding still holds "deflate", the
\* Content-Length entry and every other header entry are as before, and
\* Uncompressed and ContentLength keep their values; the body alone may
\* have changed.
C14_DeflateSkipsNormalization ==
    [][DecompressStep("deflate") =>
          /\ Get(Header', KeyCE) = "deflate"
          /\ Get(Header', KeyCL) = Get(Header, KeyCL)
          /\ Header' = Header
          /\ Uncompressed' = Uncompressed
          /\ ContentLength' = ContentLength]_vars

\* A deflate response with Content-Length 7 over a zlib stream has just been
\* given the zlib-wrapped decoder and still carries its entries.
C14_Witness ==
    /\ lastOp = "DecompressBody" /\ calls = 1 /\ ce0 = "deflate"
    /\ Kinds = <<"multi", "zlib">>
    /\ Header = HeaderOf("deflate", "7") /\ ~Uncompressed /\ ContentLength = 7

\* The consumer's Read has returned what the decoder's Read d returned.
Delegated(d) ==
    /\ lastN' = Len(d.data)
    /\ lastErr' = d.err
    /\ out' = out \o d.data
    /\ src' = d.st.src

\* C15: a Read on a wrapper whose decoder has been constructed returns
\* exactly the bytes and the error the decoder's Read returns for that call;
\* an error of the decoder is returned as it is and is not recorded as the
\* wrapper's error, and the wrapper keeps its decoder without constructing
\* another, so that the next Read delegates to the same decoder again.
C15_ReadDelegates ==
    [][(lastOp' = "Read" /\ Top \in Wrappers /\ layers[Len(layers)].r) =>
          /\ \E n \in 1..MaxChunk, g \in Grains :
                Delegated(decoderRead(Chain, Len(layers), n, g))
          /\ Len(layers') = Len(layers)
          /\ lastErr' # NoErr => lastErr' = layers'[Len(layers)].derr
          /\ layers'[Len(layers)].err = NoErr
          /\ layers'[Len(layers)].r
          /\ layers'[Len(layers)].nctor = layers[Len(layers)].nctor]_vars

\* A gzip wrapper whose decoder met a corrupt block on the first Read has
\* been read again: the decoder's error came back, the wrapper has recorded
\* none and still holds the one decoder.
C15_Witness ==
    /\ lastOp = "Read" /\ Kinds = <<"gzip">>
    /\ src.data = <<31, 139, 7, 65>>
    /\ layers[1].nreads = 2 /\ layers[1].r /\ layers[1].nctor = 1
    /\ layers[1].err = NoErr /\ layers[1].derr = ErrFlateCorrupt
    /\ lastErr = ErrFlateCorrupt /\ lastN = 0

\* C16: for every wrapper variant one DecompressBody call has attached,
\* a Close call in any state of the wrapper (also before the first Read and
\* after a construction failure) returns a result: no Close call crashes on
\* an absent decoder.
C16_CloseNeverCrashes ==
    (calls = 1 /\ Top \in Wrappers) => ~panicked

\* The state of wrapper l as its fields r and err give it.
WrapperState(l) ==
    CASE ~l.r /\ l.err = NoErr -> "uninitialized"
      [] l.r /\ l.err = NoErr -> "ready"
      [] ~l.r /\ l.err # NoErr -> "sticky-error"
      [] OTHER -> "decoder and error"

\* C17: every wrapper is at all times in exactly one of the states
\* uninitialized (no decoder, no error), ready (decoder, no error) and
\* sticky-error (error, no decoder), never holding a decoder and an error
\* together; a ready wrapper stays ready with the decoder it has and a
\* sticky-error wrapper stays so with the error it has, whatever
\* DecompressBody, Read and Close calls follow.
C17_ThreeStates ==
    [][/\ \A k \in 1..Len(layers') :
             layers'[k].kind \in Wrappers =>
                WrapperState(layers'[k]) \in
                   {"uninitialized", "ready", "sticky-error"}
       /\ \A k \in 1..Len(layers) :
             layers[k].kind \in Wrappers =>
                /\ Len(layers') >= k
                /\ layers'[k].kind = layers[k].kind
                /\ WrapperState(layers[k]) = "ready" =>
                      /\ WrapperState(layers'[k]) = "ready"
                      /\ layers'[k].nctor = layers[k].nctor
                /\ WrapperState(layers[k]) = "sticky-error" =>
                      /\ WrapperState(layers'[k]) = "sticky-error"
                      /\ layers'[k].err = layers[k].err
                      /\ layers'[k].nctor = layers[k].nctor]_vars

\* A gzip wrapper over a truncated header went into sticky-error on its
\* first Read and is still there after a Close and a further Read.
C17_Witness ==
    /\ lastOp = "Read" /\ Kinds = <<"gzip">> /\ closes = 1
    /\ src.data = <<31>> /\ src.term = EOF
    /\ WrapperState(layers[1]) = "sticky-error"
    /\ layers[1].err = ErrUnexpectedEOF /\ layers[1].nreads = 2
    /\ lastErr = ErrUnexpectedEOF

====
